---- MODULE Spec2Model ----
(***************************************************************************)
(* Dabble daily puzzle: the seeded generator of src/lib/puzzleGenerator.ts  *)
(* (board shape, bonus squares, letter rack) as a state machine, and the    *)
(* play session of src/components/Game.tsx on the puzzle it returns.       *)
(*                                                                         *)
(* Every random draw of the code is a draw from one seeded stream.  A draw  *)
(* is the rational x / Modulus with x the stream state; comparisons and     *)
(* floors of the code are done exactly on these rationals.                  *)
(***************************************************************************)
EXTENDS Integers, Sequences, FiniteSets, TLC

\* ------------------------------------------------------------------------
\* Bounds of the model
\* ------------------------------------------------------------------------
NumDates == 12
MaxCalls == 2
MaxLen == 3
MaxRackIndex == 2

Dates == 0..(NumDates - 1)

VARIABLES
  pc,            \* position inside generateDailyPuzzle
  date,          \* dateString of the running call
  rng,           \* state of the seeded stream
  returned,      \* the DailyPuzzle values returned so far, oldest first
  playable,      \* generateBoardShape: playable mask
  targetDead,    \* generateBoardShape: totalCells - targetPlayable
  shuffledSeeds, \* generateBoardShape: shuffled seed points
  seedIdx,       \* generateBoardShape: next seed of the for-of loop
  deadCount,     \* generateBoardShape: cells carved so far
  visited,       \* generateBoardShape: reachability marks
  bonuses,       \* placeBonuses: bonus grid
  typeIdx,       \* placeBonuses: index into bonusTypes
  pairIdx,       \* placeBonuses: i of the inner for loop
  board,         \* generateBoard: the GameBoard
  attempt,       \* generateLetters: attempt counter
  drawn,         \* generateLetters: the letters before sortLetters
  letters,       \* generateLetters: the returned rack
  shuffleInput,  \* shuffle: the argument array
  shuffleOutput, \* shuffle: the returned array
  isLoading,         \* Game: isLoading
  gameBoard,         \* Game: board
  rackLetters,       \* Game: rackLetters
  placedTiles,       \* Game: placedTiles
  usedRackIndices,   \* Game: usedRackIndices, in insertion order
  lockedRackIndices, \* Game: lockedRackIndices
  selectedRackIndex, \* Game: selectedRackIndex
  selectedCell,      \* Game: selectedCell
  submittedWords,    \* Game: submittedWords
  totalScore,        \* Game: totalScore
  error,             \* Game: error
  showShareModal     \* Game: showShareModal

shapeVars == <<playable, targetDead, shuffledSeeds, seedIdx, deadCount, visited>>
bonusVars == <<bonuses, typeIdx, pairIdx>>
letterVars == <<attempt, drawn, letters>>
callVars == <<date, returned>>
shuffleVars == <<shuffleInput, shuffleOutput>>
rackVars == <<placedTiles, usedRackIndices, lockedRackIndices, selectedRackIndex>>
sessionVars == <<isLoading, gameBoard, rackLetters, rackVars, selectedCell,
                 submittedWords, totalScore, error, showShareModal>>
generatorVars == <<pc, date, rng, returned, playable, targetDead, shuffledSeeds,
                   seedIdx, deadCount, visited, bonuses, typeIdx, pairIdx, board,
                   attempt, drawn, letters>>

vars == <<generatorVars, shuffleVars, sessionVars>>

\* ------------------------------------------------------------------------
\* constants/gameConfig
\* ------------------------------------------------------------------------
BOARD_SIZE == 9

VOWELS == <<"A", "E", "I", "O", "U">>

Alphabet ==
  <<"A", "B", "C", "D", "E", "F", "G", "H", "I", "J", "K", "L", "M",
    "N", "O", "P", "Q", "R", "S", "T", "U", "V", "W", "X", "Y", "Z">>

Letters == {Alphabet[i] : i \in DOMAIN Alphabet}

\* Letter -> count, in the key order of the object literal (A..Z)
LETTER_DISTRIBUTION ==
  <<9, 2, 2, 4, 12, 2, 3, 2, 9, 1, 1, 4, 2,
    6, 8, 2, 1, 6, 4, 6, 4, 2, 2, 1, 2, 1>>

LETTER_CONSTRAINTS ==
  [totalLetters |-> 14, minVowels |-> 4, maxVowels |-> 6,
   minUniqueLetters |-> 10, maxDuplicatesPerLetter |-> 2]

COMMON_2_LETTER_WORDS ==
  << <<"A","N">>, <<"A","T">>, <<"B","E">>, <<"D","O">>, <<"G","O">>,
     <<"H","E">>, <<"I","F">>, <<"I","N">>, <<"I","S">>, <<"I","T">>,
     <<"M","E">>, <<"N","O">>, <<"O","F">>, <<"O","N">>, <<"O","R">>,
     <<"S","O">>, <<"T","O">>, <<"U","P">>, <<"W","E">>, <<"B","Y">>,
     <<"M","Y">>, <<"A","M">>, <<"A","S">>, <<"A","H">>, <<"A","W">>,
     <<"O","X">>, <<"O","H">>, <<"O","W">>, <<"U","S">>, <<"U","M">> >>

COMMON_3_LETTER_WORDS ==
  << <<"T","H","E">>, <<"A","N","D">>, <<"F","O","R">>, <<"A","R","E">>,
     <<"B","U","T">>, <<"N","O","T">>, <<"A","L","L">>, <<"C","A","N">>,
     <<"H","E","R">>, <<"W","A","S">>, <<"O","N","E">>, <<"O","U","T">>,
     <<"D","A","Y">>, <<"H","A","D">>, <<"H","A","S">>, <<"H","O","W">>,
     <<"N","E","W">>, <<"N","O","W">>, <<"O","L","D">>, <<"S","E","E">>,
     <<"W","A","Y">>, <<"M","A","Y">>, <<"S","A","Y">>, <<"S","H","E">>,
     <<"T","W","O">>, <<"G","E","T">>, <<"H","I","M">>, <<"H","I","S">>,
     <<"O","U","R">>, <<"T","O","O">>, <<"A","N","Y">>, <<"M","A","N">>,
     <<"B","I","G">>, <<"R","U","N">>, <<"S","E","T">>, <<"P","U","T">>,
     <<"E","N","D">>, <<"F","A","R">>, <<"T","O","P">>, <<"T","E","N">> >>

\* percentages as integers: 0.65 and 0.85
BOARD_CONFIG ==
  [minPlayablePercent |-> 65, maxPlayablePercent |-> 85,
   bonusCounts |-> [DL |-> 8, TL |-> 4, DW |-> 4, TW |-> 2]]

BOARD_SYMMETRY == [centerProtectionRadius |-> 2]

\* edgePreference in tenths: 0.9, 0.6, 0.4, 0.3
BONUS_PLACEMENT ==
  [TW |-> [edgePreference |-> 9, minDistFromCenter |-> 3, allowAdjacent |-> FALSE],
   DW |-> [edgePreference |-> 6, minDistFromCenter |-> 2, allowAdjacent |-> FALSE],
   TL |-> [edgePreference |-> 4, minDistFromCenter |-> 1, allowAdjacent |-> TRUE],
   DL |-> [edgePreference |-> 3, minDistFromCenter |-> 0, allowAdjacent |-> TRUE]]

\* the null of BonusType and of Cell.letter
Null == "null"

\* ------------------------------------------------------------------------
\* Seeded random source.  seedrandom is an external library; the stream is
\* modelled as the multiplicative congruential generator
\*     x' = Multiplier * x  mod  Modulus,        draw = x' / Modulus
\* Date 0 seeds the absorbing state 0: the stream of all-zero draws.
\* ------------------------------------------------------------------------
Modulus == 65537
Multiplier == 75
SeedSpread == 7220

NextState(s) == (s * Multiplier) % Modulus

\* the stream left by the previous call is reused instead of a fresh one
createRngShared(dateString) == rng

createRng(dateString) == (dateString * SeedSpread) % Modulus

\* x / Modulus < num / den
DrawLess(x, num, den) == x * den < num * Modulus

\* floor((x / Modulus) * n)
DrawFloor(x, n) == (x * n) \div Modulus

randInt(s, min, max) ==
  LET x == NextState(s)
  IN  [val |-> DrawFloor(x, max - min + 1) + min, rng |-> x]

\* statement sequencing: "const v = e; F(v)".  The value of e is computed
\* once, before F starts.
Bind(e, F(_)) == CHOOSE r \in {F(v) : v \in {e}} : TRUE

Swap(seq, i, j) == [seq EXCEPT ![i] = seq[j], ![j] = seq[i]]

\* the passes i = hi, hi - 1, ..., lo (0-based) of the loop of shuffle over
\* the copy st.val, with st.rng the stream.  The range is halved and the
\* upper half is run before the lower half.
RECURSIVE ShuffleRange(_, _, _)
ShuffleRange(st, hi, lo) ==
  IF hi < lo
  THEN st
  ELSE IF hi = lo
       THEN LET x == NextState(st.rng)
                j == DrawFloor(x, hi + 1)
            IN  [val |-> Swap(st.val, hi + 1, j + 1), rng |-> x]
       ELSE LET mid == (hi + lo) \div 2
            IN  Bind(ShuffleRange(st, hi, mid + 1),
                     LAMBDA upper : ShuffleRange(upper, mid, lo))

\* the loop runs while i >= 0
shuffleDownToZero(s, array) ==
  Bind([val |-> array, rng |-> s],
       LAMBDA st : ShuffleRange(st, Len(st.val) - 1, 0))

shuffle(s, array) ==
  Bind([val |-> array, rng |-> s],
       LAMBDA st : ShuffleRange(st, Len(st.val) - 1, 1))

\* ------------------------------------------------------------------------
\* Grid helpers
\* ------------------------------------------------------------------------
Abs(x) == IF x < 0 THEN -x ELSE x

Min2(a, b) == IF a < b THEN a ELSE b

Pos(size) == (0..(size - 1)) \X (0..(size - 1))

\* positions in the order of the nested loops  for r { for c }
RowMajor(size) ==
  [k \in 1..(size * size) |-> <<(k - 1) \div size, (k - 1) % size>>]

inBounds(row, col, size) == row >= 0 /\ row < size /\ col >= 0 /\ col < size

directions == << <<-1, 0>>, <<1, 0>>, <<0, -1>>, <<0, 1>> >>

getNeighbors(row, col, size) ==
  LET all == [k \in 1..4 |-> <<row + directions[k][1], col + directions[k][2]>>]
  IN  SelectSeq(all, LAMBDA p : inBounds(p[1], p[2], size))

\* the position mirrored in the horizontal axis only
getMirroredPosition(r, c, size) == <<size - 1 - r, c>>

getRotatedPosition(r, c, size) == <<size - 1 - r, size - 1 - c>>

isInFirstHalf(r, c, size) ==
  LET center == size \div 2
  IN  r < center \/ (r = center /\ c < center)

Center(size) == <<size \div 2, size \div 2>>

distFromCenter(r, c, size) ==
  Abs(r - Center(size)[1]) + Abs(c - Center(size)[2])

\* ------------------------------------------------------------------------
\* generateBoardShape
\* ------------------------------------------------------------------------
AllPlayable(size) == [p \in Pos(size) |-> TRUE]

\* floor(totalCells * percent)
PercentOf(totalCells, percent) == (totalCells * percent) \div 100

ChooseTargetDead(s, size) ==
  LET totalCells == size * size
      t == randInt(s,
                   PercentOf(totalCells, BOARD_CONFIG.minPlayablePercent),
                   PercentOf(totalCells, BOARD_CONFIG.maxPlayablePercent))
  IN  [val |-> totalCells - t.val, rng |-> t.rng]

\* the candidate seed points in the order the code tests them; a corner is
\* tested unconditionally, an edge point only when isInFirstHalf holds
SeedCandidates(size) ==
  << [pos |-> <<0, 0>>, pct |-> 80, corner |-> TRUE],
     [pos |-> <<0, size - 1>>, pct |-> 60, corner |-> TRUE],
     [pos |-> <<size - 1, 0>>, pct |-> 60, corner |-> TRUE] >>
  \o [k \in 1..(4 * (size - 2)) |->
        LET i == ((k - 1) \div 4) + 1
            e == (k - 1) % 4
        IN  [pos |-> CASE e = 0 -> <<0, i>>
                       [] e = 1 -> <<i, 0>>
                       [] e = 2 -> <<size - 1, i>>
                       [] e = 3 -> <<i, size - 1>>,
             pct |-> 25, corner |-> FALSE]]

\* the candidates k.. in turn; st = [val, rng] with val the seedPoints so far
RECURSIVE CollectFrom(_, _, _)
CollectFrom(st, k, size) ==
  LET cands == SeedCandidates(size)
  IN  IF k > Len(cands)
      THEN st
      ELSE LET cand == cands[k]
               x == NextState(st.rng)
           IN  IF cand.corner \/ isInFirstHalf(cand.pos[1], cand.pos[2], size)
               THEN Bind(IF DrawLess(x, cand.pct, 100)
                         THEN [val |-> Append(st.val, cand.pos), rng |-> x]
                         ELSE [val |-> st.val, rng |-> x],
                         LAMBDA st1 : CollectFrom(st1, k + 1, size))
               ELSE CollectFrom(st, k + 1, size)

CollectSeedPoints(s, size) ==
  Bind([val |-> <<>>, rng |-> s], LAMBDA st : CollectFrom(st, 1, size))

IsProtected(r, c, size) ==
  distFromCenter(r, c, size) < BOARD_SYMMETRY.centerProtectionRadius

\* the for loop over getNeighbors(r, c) inside the cluster BFS;
\* st = [rng, cluster, visited, queue]
RECURSIVE VisitNeighbors(_, _, _, _, _)
VisitNeighbors(st, nbrs, k, mask, size) ==
  IF k > Len(nbrs)
  THEN st
  ELSE LET n == nbrs[k]
       IN  IF n \in st.visited
           THEN VisitNeighbors(st, nbrs, k + 1, mask, size)
           ELSE LET st1 == [st EXCEPT !.visited = @ \cup {n}]
                    x == NextState(st.rng)
                IN  Bind(IF \/ IsProtected(n[1], n[2], size)
                            \/ ~mask[n]
                            \/ (~isInFirstHalf(n[1], n[2], size) /\ n # Center(size))
                         THEN st1
                         ELSE IF DrawLess(x, 4, 10)
                              THEN [st1 EXCEPT !.rng = x,
                                               !.cluster = Append(@, n),
                                               !.queue = Append(@, n)]
                              ELSE [st1 EXCEPT !.rng = x],
                         LAMBDA st2 : VisitNeighbors(st2, nbrs, k + 1, mask, size))

RECURSIVE ClusterLoop(_, _, _, _)
ClusterLoop(st, clusterSize, mask, size) ==
  IF Len(st.queue) > 0 /\ Len(st.cluster) < clusterSize
  THEN LET h == Head(st.queue)
       IN  Bind([st EXCEPT !.queue = Tail(@)], LAMBDA st1 :
           Bind(VisitNeighbors(st1, getNeighbors(h[1], h[2], size), 1, mask, size),
                LAMBDA st2 : ClusterLoop(st2, clusterSize, mask, size)))
  ELSE st

\* the BFS that grows a cluster from the seed (sr, sc)
GrowCluster(s, mask, sr, sc, size) ==
  Bind(randInt(s, 1, 3), LAMBDA cs :
  Bind([rng |-> cs.rng, cluster |-> <<<<sr, sc>>>>,
        visited |-> {<<sr, sc>>}, queue |-> <<<<sr, sc>>>>], LAMBDA st0 :
  Bind(ClusterLoop(st0, cs.val, mask, size), LAMBDA st :
       [cluster |-> st.cluster, rng |-> st.rng, clusterSize |-> cs.val])))

\* "Apply cluster and its symmetric mirror"; b = [playable, deadCount]
RECURSIVE ApplyCluster(_, _, _, _)
ApplyCluster(b, cluster, k, size) ==
  IF k > Len(cluster)
  THEN b
  ELSE LET p == cluster[k]
           m == getRotatedPosition(p[1], p[2], size)
       IN  IF ~IsProtected(p[1], p[2], size) /\ b.playable[p]
           THEN Bind([playable |-> [b.playable EXCEPT ![p] = FALSE],
                      deadCount |-> b.deadCount + 1], LAMBDA b1 :
                Bind(IF m # p /\ b1.playable[m] /\ ~IsProtected(m[1], m[2], size)
                     THEN [playable |-> [b1.playable EXCEPT ![m] = FALSE],
                           deadCount |-> b1.deadCount + 1]
                     ELSE b1,
                     LAMBDA b2 : ApplyCluster(b2, cluster, k + 1, size)))
           ELSE ApplyCluster(b, cluster, k + 1, size)

\* the reachability scan from the center; v = the cells whose visited mark
\* is set, q = reachQueue
RECURSIVE MarkNeighbors(_, _, _, _)
MarkNeighbors(vq, nbrs, k, mask) ==
  IF k > Len(nbrs)
  THEN vq
  ELSE LET n == nbrs[k]
       IN  IF mask[n] /\ n \notin vq.v
           THEN Bind([v |-> vq.v \cup {n}, q |-> Append(vq.q, n)],
                     LAMBDA vq1 : MarkNeighbors(vq1, nbrs, k + 1, mask))
           ELSE MarkNeighbors(vq, nbrs, k + 1, mask)

\* one pass of  while (reachQueue.length > 0)
ReachStep(vq, mask, size) ==
  IF Len(vq.q) > 0
  THEN LET h == Head(vq.q)
       IN  Bind([vq EXCEPT !.q = Tail(@)],
                LAMBDA vq1 : MarkNeighbors(vq1, getNeighbors(h[1], h[2], size), 1, mask))
  ELSE vq

\* up to n passes of the while loop; a cell enters the queue at most once,
\* so size * size passes empty it
RECURSIVE ReachLoop(_, _, _, _)
ReachLoop(vq, mask, size, n) ==
  IF n <= 1
  THEN ReachStep(vq, mask, size)
  ELSE Bind(ReachLoop(vq, mask, size, n \div 2),
            LAMBDA first : ReachLoop(first, mask, size, n - (n \div 2)))

MarkReachable(mask, size) ==
  Bind([v |-> {Center(size)}, q |-> <<Center(size)>>], LAMBDA vq0 :
  Bind(ReachLoop(vq0, mask, size, size * size),
       LAMBDA marked : [p \in Pos(size) |-> p \in marked.v]))

\* the final pass that leaves the unreachable cells playable
KeepUnreachable(mask, marks, size) == mask

\* "Mark unreachable playable cells as dead (and their symmetric counterparts)"
\* the cells lo..hi of the row-major double loop
RECURSIVE KillRange(_, _, _, _, _)
KillRange(mask, marks, lo, hi, size) ==
  IF lo > hi
  THEN mask
  ELSE IF lo = hi
       THEN LET p == RowMajor(size)[lo]
                m == getRotatedPosition(p[1], p[2], size)
            IN  IF mask[p] /\ ~marks[p]
                THEN [mask EXCEPT ![p] = FALSE, ![m] = FALSE]
                ELSE mask
       ELSE LET mid == (lo + hi) \div 2
            IN  Bind(KillRange(mask, marks, lo, mid, size),
                     LAMBDA first : KillRange(first, marks, mid + 1, hi, size))

KillUnreachable(mask, marks, size) == KillRange(mask, marks, 1, size * size, size)

\* ------------------------------------------------------------------------
\* placeBonuses
\* ------------------------------------------------------------------------
getEdgeDistance(r, c, size) ==
  Min2(Min2(r, size - 1 - r), Min2(c, size - 1 - c))

\* no neighbour is looked at
hasAdjacentBonusNever(r, c, grid, size) == FALSE

hasAdjacentBonus(r, c, grid, size) ==
  Bind(getNeighbors(r, c, size),
       LAMBDA nbrs : \E k \in DOMAIN nbrs : grid[nbrs[k]] # Null)

\* scorePosition times 10 * maxEdgeDist, edgePreference in tenths:
\*   normalizedEdge = (maxEdgeDist - edgeDist) / maxEdgeDist
\*   score = normalizedEdge * ep + (1 - normalizedEdge) * (1 - ep)
scorePosition(r, c, size, edgePreference) ==
  LET edgeDist == getEdgeDistance(r, c, size)
      maxEdgeDist == size \div 2
  IN  (maxEdgeDist - edgeDist) * edgePreference + edgeDist * (10 - edgePreference)

\* the bonus grid as allocated: Array(size) of Array(size).fill(null)
NoBonuses(size) == [p \in Pos(size) |-> Null]

\* the assignment of START is left out
StartSquareOmitted(size) == NoBonuses(size)

\* the bonus grid after "Place start square in center"
StartSquare(size) == [p \in Pos(size) |-> IF p = Center(size) THEN "START" ELSE Null]

\* the position test without the two playable checks
IsValidPositionAnyCell(p, bonusType, mask, grid, size) ==
  LET config == BONUS_PLACEMENT[bonusType]
      m == getRotatedPosition(p[1], p[2], size)
  IN  /\ p # Center(size)
      /\ grid[p] = Null
      /\ isInFirstHalf(p[1], p[2], size)
      /\ distFromCenter(p[1], p[2], size) >= config.minDistFromCenter
      /\ (config.allowAdjacent \/ ~hasAdjacentBonus(p[1], p[2], grid, size))
      /\ grid[m] = Null
      /\ (config.allowAdjacent \/ ~hasAdjacentBonus(m[1], m[2], grid, size))

\* the distance test inverted: a cell at minDistFromCenter or more is skipped
IsValidPositionNearCenter(p, bonusType, mask, grid, size) ==
  LET config == BONUS_PLACEMENT[bonusType]
      m == getRotatedPosition(p[1], p[2], size)
  IN  /\ mask[p]
      /\ p # Center(size)
      /\ grid[p] = Null
      /\ isInFirstHalf(p[1], p[2], size)
      /\ ~(distFromCenter(p[1], p[2], size) >= config.minDistFromCenter)
      /\ (config.allowAdjacent \/ ~hasAdjacentBonus(p[1], p[2], grid, size))
      /\ mask[m]
      /\ grid[m] = Null
      /\ (config.allowAdjacent \/ ~hasAdjacentBonus(m[1], m[2], grid, size))

\* the body of the double loop of getValidPositions: TRUE when (r, c) is pushed
IsValidPosition(p, bonusType, mask, grid, size) ==
  LET config == BONUS_PLACEMENT[bonusType]
      m == getRotatedPosition(p[1], p[2], size)
  IN  /\ mask[p]
      /\ p # Center(size)
      /\ grid[p] = Null
      /\ isInFirstHalf(p[1], p[2], size)
      /\ distFromCenter(p[1], p[2], size) >= config.minDistFromCenter
      /\ (config.allowAdjacent \/ ~hasAdjacentBonus(p[1], p[2], grid, size))
      /\ mask[m]
      /\ grid[m] = Null
      /\ (config.allowAdjacent \/ ~hasAdjacentBonus(m[1], m[2], grid, size))

getValidPositions(bonusType, mask, grid, size) ==
  SelectSeq(RowMajor(size), LAMBDA p : IsValidPosition(p, bonusType, mask, grid, size))

\* scoredPositions.sort((a, b) => b.score - a.score): stable, descending.
\* The element at index k moves behind the elements of higher score and the
\* earlier elements of equal score.
SortByScore(positions, size, ep) ==
  Bind([k \in DOMAIN positions |->
          scorePosition(positions[k][1], positions[k][2], size, ep)], LAMBDA sc :
  Bind([k \in DOMAIN positions |->
          Cardinality({j \in DOMAIN positions :
                         sc[j] > sc[k] \/ (sc[j] = sc[k] /\ j < k)}) + 1], LAMBDA rank :
       [i \in DOMAIN positions |->
          positions[CHOOSE k \in DOMAIN positions : rank[k] = i]]))

\* Math.pow(0.6, idx) times 5^4
Weight(idx) == (3 ^ idx) * (5 ^ (4 - idx))

RECURSIVE TotalWeight(_)
TotalWeight(topN) == IF topN = 0 THEN 0 ELSE TotalWeight(topN - 1) + Weight(topN - 1)

\* the loop  pick -= weights[j]; if (pick <= 0) { selectedIdx = j; break }
\* with pick scaled by Modulus * 5^4; selectedIdx stays 0 when no j breaks
RECURSIVE PickLoop(_, _, _)
PickLoop(pick, j, topN) ==
  IF j >= topN
  THEN 0
  ELSE IF pick - Modulus * Weight(j) <= 0
       THEN j
       ELSE PickLoop(pick - Modulus * Weight(j), j + 1, topN)

SelectIndex(x, count) ==
  LET topN == Min2(5, count)
  IN  PickLoop(x * TotalWeight(topN), 0, topN)

bonusTypes == <<"TW", "DW", "TL", "DL">>

\* one pair per square of the count
pairsNeededPerSquare(bonusType) == BOARD_CONFIG.bonusCounts[bonusType]

\* Math.ceil(count / 2)
pairsNeeded(bonusType) == (BOARD_CONFIG.bonusCounts[bonusType] + 1) \div 2

\* one pass of the inner for loop with validPositions non-empty
PlacePair(s, bonusType, validPositions, grid, size) ==
  LET ep == BONUS_PLACEMENT[bonusType].edgePreference
      x == NextState(s)
  IN  Bind(SortByScore(validPositions, size, ep), LAMBDA scoredPositions :
        LET selectedIdx == SelectIndex(x, Len(scoredPositions))
            p == scoredPositions[selectedIdx + 1]
            m == getRotatedPosition(p[1], p[2], size)
        IN  [val |-> [grid EXCEPT ![p] = bonusType, ![m] = bonusType], rng |-> x])

\* ------------------------------------------------------------------------
\* generateLetters
\* ------------------------------------------------------------------------
IsVowel(l) == \E i \in DOMAIN VOWELS : VOWELS[i] = l

\* position of a letter in the alphabet: the order of the default sort()
Code(l) == CHOOSE i \in DOMAIN Alphabet : Alphabet[i] = l

Count(seq, l) == Cardinality({k \in DOMAIN seq : seq[k] = l})

\* the pool a letter goes to, filled in the key order of LETTER_DISTRIBUTION
RECURSIVE PoolFrom(_, _)
PoolFrom(k, wantVowels) ==
  IF k > Len(Alphabet)
  THEN <<>>
  ELSE (IF IsVowel(Alphabet[k]) = wantVowels
        THEN [i \in 1..LETTER_DISTRIBUTION[k] |-> Alphabet[k]]
        ELSE <<>>) \o PoolFrom(k + 1, wantVowels)

vowelPool == PoolFrom(1, TRUE)

consonantPool == PoolFrom(1, FALSE)

\* array.sort() of single letters: ascending by code.  The element at
\* index k moves behind the smaller elements and the earlier equal ones.
Sorted(seq) ==
  LET rank(k) == Cardinality({j \in DOMAIN seq :
                                Code(seq[j]) < Code(seq[k])
                                \/ (seq[j] = seq[k] /\ j < k)}) + 1
  IN  [i \in DOMAIN seq |-> seq[CHOOSE k \in DOMAIN seq : rank(k) = i]]

\* the two groups joined without sorting either
sortLettersGroupsOnly(ls) ==
  SelectSeq(ls, IsVowel) \o SelectSeq(ls, LAMBDA l : ~IsVowel(l))

sortLetters(ls) ==
  LET vowels == Sorted(SelectSeq(ls, IsVowel))
      consonants == Sorted(SelectSeq(ls, LAMBDA l : ~IsVowel(l)))
  IN  vowels \o consonants

\* available.indexOf(char), 1-based, 0 when absent
IndexOf(seq, l) ==
  IF \E k \in DOMAIN seq : seq[k] = l
  THEN CHOOSE k \in DOMAIN seq : seq[k] = l /\ \A j \in 1..(k - 1) : seq[j] # l
  ELSE 0

\* available.splice(idx, 1)
Splice(seq, idx) == SubSeq(seq, 1, idx - 1) \o SubSeq(seq, idx + 1, Len(seq))

RECURSIVE FormFrom(_, _, _)
FormFrom(available, word, k) ==
  IF k > Len(word)
  THEN TRUE
  ELSE LET idx == IndexOf(available, word[k])
       IN  IF idx = 0 THEN FALSE ELSE FormFrom(Splice(available, idx), word, k + 1)

canFormWord(ls, word) == FormFrom(ls, word, 1)

countFormableWords(ls, wordList) ==
  Len(SelectSeq(wordList, LAMBDA word : canFormWord(ls, word)))

\* every rack counts as playable
isPlayableAlways(ls) == TRUE

isPlayable(ls) ==
  LET twoLetterCount == countFormableWords(ls, COMMON_2_LETTER_WORDS)
      threeLetterCount == countFormableWords(ls, COMMON_3_LETTER_WORDS)
  IN  twoLetterCount >= 3 /\ threeLetterCount >= 2

\* the check without the unique-letter test
meetsConstraintsNoUnique(ls) ==
  LET c == LETTER_CONSTRAINTS
      vowelCount == Len(SelectSeq(ls, IsVowel))
  IN  /\ Len(ls) = c.totalLetters
      /\ ~(vowelCount < c.minVowels \/ vowelCount > c.maxVowels)
      /\ \A k \in DOMAIN ls :
            Count(SubSeq(ls, 1, k), ls[k]) <= c.maxDuplicatesPerLetter

meetsConstraints(ls) ==
  LET c == LETTER_CONSTRAINTS
      vowelCount == Len(SelectSeq(ls, IsVowel))
      uniqueLetters == {ls[k] : k \in DOMAIN ls}
  IN  /\ Len(ls) = c.totalLetters
      /\ ~(vowelCount < c.minVowels \/ vowelCount > c.maxVowels)
      /\ ~(Cardinality(uniqueLetters) < c.minUniqueLetters)
      \* the loop over letters: the running count of letters[k] stays <= max
      /\ \A k \in DOMAIN ls :
            Count(SubSeq(ls, 1, k), ls[k]) <= c.maxDuplicatesPerLetter

\* what the condition of each of the three drawing loops counts
Have(kind, ls) ==
  CASE kind = "vowels" -> Len(SelectSeq(ls, IsVowel))
    [] kind = "consonants" -> Len(SelectSeq(ls, LAMBDA l : ~IsVowel(l)))
    [] kind = "all" -> Len(ls)

\* one pass of a drawing loop, nothing once its condition is false;
\* st = [drawn, letterCounts, idx] with idx 0-based into src
DrawStep(st, src, kind, target) ==
  IF Have(kind, st.drawn) < target /\ st.idx < Len(src)
  THEN LET letter == src[st.idx + 1]
           count == st.letterCounts[letter]
       IN  IF count < LETTER_CONSTRAINTS.maxDuplicatesPerLetter
           THEN [drawn |-> Append(st.drawn, letter),
                 letterCounts |-> [st.letterCounts EXCEPT ![letter] = count + 1],
                 idx |-> st.idx + 1]
           ELSE [st EXCEPT !.idx = @ + 1]
  ELSE st

\* up to n passes of a drawing loop
RECURSIVE DrawLoop(_, _, _, _, _)
DrawLoop(st, src, kind, target, n) ==
  IF n <= 1
  THEN DrawStep(st, src, kind, target)
  ELSE Bind(DrawLoop(st, src, kind, target, n \div 2),
            LAMBDA first : DrawLoop(first, src, kind, target, n - (n \div 2)))

\* a drawing loop: idx advances in every pass, so Len(src) passes end it
DrawWhile(st, src, kind, target) ==
  Bind(st, LAMBDA st0 : DrawLoop(st0, src, kind, target, Len(src)))

\* the body of one attempt up to the constraint check
DrawAttempt(s) ==
  LET c == LETTER_CONSTRAINTS
  IN  Bind(shuffle(s, vowelPool), LAMBDA shuffledVowels :
      Bind(shuffle(shuffledVowels.rng, consonantPool), LAMBDA shuffledConsonants :
      Bind(randInt(shuffledConsonants.rng, c.minVowels, c.maxVowels), LAMBDA targetVowels :
      Bind(DrawWhile([drawn |-> <<>>, letterCounts |-> [l \in Letters |-> 0], idx |-> 0],
                     shuffledVowels.val, "vowels", targetVowels.val), LAMBDA v :
      Bind(DrawWhile([v EXCEPT !.idx = 0], shuffledConsonants.val, "consonants",
                     c.totalLetters - targetVowels.val), LAMBDA k :
      Bind(shuffle(targetVowels.rng,
                   SubSeq(shuffledVowels.val, v.idx + 1, Len(shuffledVowels.val))
                   \o SubSeq(shuffledConsonants.val, k.idx + 1,
                             Len(shuffledConsonants.val))), LAMBDA allRemaining :
      Bind(DrawWhile([k EXCEPT !.idx = 0], allRemaining.val, "all", c.totalLetters),
           LAMBDA f : [drawn |-> f.drawn, rng |-> allRemaining.rng])))))))

maxAttempts == 50

\* the loop counter is not advanced
SameAttempt(a) == a

NextAttempt(a) == a + 1

fallbackSets ==
  << <<"A", "E", "I", "O", "U", "B", "C", "D", "G", "L", "N", "R", "S", "T">>,
     <<"A", "E", "I", "O", "C", "D", "F", "H", "L", "M", "N", "R", "S", "T">>,
     <<"A", "E", "I", "U", "B", "D", "G", "K", "L", "N", "P", "R", "S", "T">>,
     <<"A", "E", "O", "U", "C", "D", "H", "L", "M", "N", "P", "R", "S", "W">>,
     <<"A", "E", "I", "O", "B", "D", "F", "G", "L", "N", "R", "S", "T", "Y">> >>

\* the fallback branch up to sortLetters
DrawFallback(s) ==
  LET x == NextState(s)
      fallbackIdx == DrawFloor(x, Len(fallbackSets))
  IN  Bind(shuffle(x, fallbackSets[fallbackIdx + 1]),
           LAMBDA sh : [drawn |-> sh.val, rng |-> sh.rng])

\* ------------------------------------------------------------------------
\* generateBoard
\* ------------------------------------------------------------------------
NoBoard == [cells |-> <<>>, size |-> 0]

generateBoardCells(mask, grid, size) ==
  [p \in Pos(size) |->
     [row |-> p[1], col |-> p[2], bonus |-> grid[p], isPlayable |-> mask[p],
      letter |-> Null, isLocked |-> FALSE]]

\* ------------------------------------------------------------------------
\* The state machine: calls of generateDailyPuzzle, one after the other
\* ------------------------------------------------------------------------
FreshLocals ==
  /\ playable' = AllPlayable(BOARD_SIZE)
  /\ targetDead' = 0
  /\ shuffledSeeds' = <<>>
  /\ seedIdx' = 1
  /\ deadCount' = 0
  /\ visited' = [p \in Pos(BOARD_SIZE) |-> FALSE]
  /\ bonuses' = NoBonuses(BOARD_SIZE)
  /\ typeIdx' = 1
  /\ pairIdx' = 0
  /\ board' = NoBoard
  /\ attempt' = 0
  /\ drawn' = <<>>
  /\ letters' = <<>>

\* useState(null) of selectedRackIndex
NoIndex == -1

\* useState(null) of selectedCell
NoCell == [row |-> -1, col |-> -1]

\* the initial values of the useState hooks of Game
SessionInit ==
  /\ isLoading = TRUE
  /\ gameBoard = NoBoard
  /\ rackLetters = <<>>
  /\ placedTiles = <<>>
  /\ usedRackIndices = <<>>
  /\ lockedRackIndices = {}
  /\ selectedRackIndex = NoIndex
  /\ selectedCell = NoCell
  /\ submittedWords = <<>>
  /\ totalScore = 0
  /\ error = Null
  /\ showShareModal = FALSE

\* the locals of generateDailyPuzzle before a call
NoLocals ==
  /\ playable = AllPlayable(BOARD_SIZE)
  /\ targetDead = 0
  /\ shuffledSeeds = <<>>
  /\ seedIdx = 1
  /\ deadCount = 0
  /\ visited = [p \in Pos(BOARD_SIZE) |-> FALSE]
  /\ bonuses = NoBonuses(BOARD_SIZE)
  /\ typeIdx = 1
  /\ pairIdx = 0
  /\ board = NoBoard
  /\ attempt = 0
  /\ drawn = <<>>
  /\ letters = <<>>

GeneratorInit ==
  /\ pc = "idle"
  /\ date = 0
  /\ rng = 1
  /\ returned = <<>>
  /\ NoLocals

Init ==
  /\ GeneratorInit
  /\ shuffleInput = <<>>
  /\ shuffleOutput = <<>>
  /\ SessionInit


\* a call generateDailyPuzzle(dateString): the first call with any date, a
\* later call with the date of the previous call or with the following one
generateDailyPuzzle(dateString) ==
  /\ pc \in {"idle", "done"}
  /\ Len(returned) < MaxCalls
  /\ pc = "done" => dateString \in {date, (date + 1) % NumDates}
  /\ date' = dateString
  /\ rng' = createRng(dateString)
  /\ pc' = "target"
  /\ FreshLocals
  /\ UNCHANGED returned
  /\ UNCHANGED <<shuffleVars, sessionVars>>

\* generateBoardShape, lines 68-78
ChooseTarget ==
  /\ pc = "target"
  /\ \E t \in {ChooseTargetDead(rng, BOARD_SIZE)} :
         /\ targetDead' = t.val
         /\ rng' = t.rng
  /\ pc' = "seeds"
  /\ UNCHANGED <<callVars, playable, shuffledSeeds, seedIdx, deadCount, visited,
                 bonusVars, board, letterVars>>
  /\ UNCHANGED <<shuffleVars, sessionVars>>

\* generateBoardShape, lines 88-105
CollectSeeds ==
  /\ pc = "seeds"
  /\ \E seedPoints \in {CollectSeedPoints(rng, BOARD_SIZE)} :
       \E sh \in {shuffle(seedPoints.rng, seedPoints.val)} :
         /\ shuffledSeeds' = sh.val
         /\ rng' = sh.rng
  /\ seedIdx' = 1
  /\ deadCount' = 0
  /\ pc' = "carve"
  /\ UNCHANGED <<callVars, playable, targetDead, visited, bonusVars, board, letterVars>>
  /\ UNCHANGED <<shuffleVars, sessionVars>>

CarvingOver ==
  seedIdx > Len(shuffledSeeds) \/ 2 * deadCount >= targetDead

SeedSkipped ==
  LET sd == shuffledSeeds[seedIdx]
  IN  IsProtected(sd[1], sd[2], BOARD_SIZE) \/ ~playable[sd]

\* the for-of loop ends, or breaks at deadCount >= targetDead / 2
EndCarving ==
  /\ pc = "carve"
  /\ CarvingOver
  /\ pc' = "reach"
  /\ UNCHANGED <<callVars, rng, shapeVars, bonusVars, board, letterVars>>
  /\ UNCHANGED <<shuffleVars, sessionVars>>

\* the two continue statements
SkipSeed ==
  /\ pc = "carve"
  /\ ~CarvingOver
  /\ SeedSkipped
  /\ seedIdx' = seedIdx + 1
  /\ UNCHANGED <<pc, callVars, rng, playable, targetDead, shuffledSeeds, deadCount,
                 visited, bonusVars, board, letterVars>>
  /\ UNCHANGED <<shuffleVars, sessionVars>>

\* one seed: grow the cluster, apply it and its mirror
CarveCluster ==
  /\ pc = "carve"
  /\ ~CarvingOver
  /\ ~SeedSkipped
  /\ \E sd \in {shuffledSeeds[seedIdx]} :
       \E g \in {GrowCluster(rng, playable, sd[1], sd[2], BOARD_SIZE)} :
         \E b \in {ApplyCluster([playable |-> playable, deadCount |-> deadCount],
                                g.cluster, 1, BOARD_SIZE)} :
           /\ playable' = b.playable
           /\ deadCount' = b.deadCount
           /\ rng' = g.rng
  /\ seedIdx' = seedIdx + 1
  /\ UNCHANGED <<pc, callVars, targetDead, shuffledSeeds, visited, bonusVars,
                 board, letterVars>>
  /\ UNCHANGED <<shuffleVars, sessionVars>>

\* generateBoardShape, lines 162-178
ScanReachable ==
  /\ pc = "reach"
  /\ visited' = MarkReachable(playable, BOARD_SIZE)
  /\ pc' = "prune"
  /\ UNCHANGED <<callVars, rng, playable, targetDead, shuffledSeeds, seedIdx,
                 deadCount, bonusVars, board, letterVars>>
  /\ UNCHANGED <<shuffleVars, sessionVars>>

\* generateBoardShape, lines 180-193
PruneUnreachable ==
  /\ pc = "prune"
  /\ playable' = KillUnreachable(playable, visited, BOARD_SIZE)
  /\ pc' = "start"
  /\ UNCHANGED <<callVars, rng, targetDead, shuffledSeeds, seedIdx, deadCount,
                 visited, bonusVars, board, letterVars>>
  /\ UNCHANGED <<shuffleVars, sessionVars>>

\* placeBonuses, lines 237-245
PlaceStart ==
  /\ pc = "start"
  /\ bonuses' = StartSquare(BOARD_SIZE)
  /\ typeIdx' = 1
  /\ pairIdx' = 0
  /\ pc' = "bonus"
  /\ UNCHANGED <<callVars, rng, shapeVars, board, letterVars>>
  /\ UNCHANGED <<shuffleVars, sessionVars>>

PairWanted ==
  /\ typeIdx <= Len(bonusTypes)
  /\ pairIdx < pairsNeeded(bonusTypes[typeIdx])
  /\ getValidPositions(bonusTypes[typeIdx], playable, bonuses, BOARD_SIZE) # <<>>

\* one pass of the inner loop that places a pair
PlaceBonus ==
  /\ pc = "bonus"
  /\ PairWanted
  /\ \E bonusType \in {bonusTypes[typeIdx]} :
       \E validPositions \in {getValidPositions(bonusType, playable, bonuses, BOARD_SIZE)} :
         \E placed \in {PlacePair(rng, bonusType, validPositions, bonuses, BOARD_SIZE)} :
           /\ bonuses' = placed.val
           /\ rng' = placed.rng
  /\ pairIdx' = pairIdx + 1
  /\ UNCHANGED <<pc, callVars, shapeVars, typeIdx, board, letterVars>>
  /\ UNCHANGED <<shuffleVars, sessionVars>>

\* the inner loop ends (i = pairsNeeded) or breaks (no valid position)
NextBonusType ==
  /\ pc = "bonus"
  /\ typeIdx <= Len(bonusTypes)
  /\ ~PairWanted
  /\ typeIdx' = typeIdx + 1
  /\ pairIdx' = 0
  /\ UNCHANGED <<pc, callVars, rng, shapeVars, bonuses, board, letterVars>>
  /\ UNCHANGED <<shuffleVars, sessionVars>>

\* placeBonuses returns; generateBoard builds the cells
generateBoard ==
  /\ pc = "bonus"
  /\ typeIdx > Len(bonusTypes)
  /\ board' = [cells |-> generateBoardCells(playable, bonuses, BOARD_SIZE),
               size |-> BOARD_SIZE]
  /\ attempt' = 0
  /\ pc' = "letters"
  /\ UNCHANGED <<callVars, rng, shapeVars, bonusVars, drawn, letters>>
  /\ UNCHANGED <<shuffleVars, sessionVars>>

\* one pass of the attempt loop of generateLetters
DrawLetters ==
  /\ pc = "letters"
  /\ attempt < maxAttempts
  /\ \E a \in {DrawAttempt(rng)} :
         /\ rng' = a.rng
         /\ drawn' = a.drawn
         /\ IF meetsConstraints(a.drawn) /\ isPlayable(a.drawn)
            THEN /\ letters' = sortLetters(a.drawn)
                 /\ pc' = "return"
                 /\ UNCHANGED attempt
            ELSE /\ attempt' = NextAttempt(attempt)
                 /\ UNCHANGED <<pc, letters>>
  /\ UNCHANGED <<callVars, shapeVars, bonusVars, board>>
  /\ UNCHANGED <<shuffleVars, sessionVars>>

\* generateLetters, lines 459-469
FallbackLetters ==
  /\ pc = "letters"
  /\ ~(attempt < maxAttempts)
  /\ \E f \in {DrawFallback(rng)} :
         /\ rng' = f.rng
         /\ drawn' = f.drawn
         /\ letters' = sortLetters(f.drawn)
  /\ pc' = "return"
  /\ UNCHANGED <<callVars, shapeVars, bonusVars, board, attempt>>
  /\ UNCHANGED <<shuffleVars, sessionVars>>

\* generateDailyPuzzle, lines 510-515; seed is the day number of the date
ReturnPuzzle ==
  /\ pc = "return"
  /\ returned' = Append(returned,
                        [date |-> date, board |-> board, letters |-> letters,
                         seed |-> date])
  /\ pc' = "done"
  /\ UNCHANGED <<date, rng, shapeVars, bonusVars, board, letterVars>>
  /\ UNCHANGED <<shuffleVars, sessionVars>>

Next ==
  \/ \E dateString \in Dates : generateDailyPuzzle(dateString)
  \/ ChooseTarget
  \/ CollectSeeds
  \/ EndCarving
  \/ SkipSeed
  \/ CarveCluster
  \/ ScanReachable
  \/ PruneUnreachable
  \/ PlaceStart
  \/ PlaceBonus
  \/ NextBonusType
  \/ generateBoard
  \/ DrawLetters
  \/ FallbackLetters
  \/ ReturnPuzzle

Spec == Init /\ [][Next]_vars

\* the calls are run to completion: no step of a call waits for anything
FairSpec == Init /\ [][Next]_vars /\ WF_vars(Next)

\* ------------------------------------------------------------------------
\* shuffle on its own: one call on an array of at most MaxLen elements with
\* the stream of a date
\* ------------------------------------------------------------------------
ShuffleElements == {"A", "B", "C"}

ShuffleInputs == UNION {[1..n -> ShuffleElements] : n \in 0..MaxLen}

ShuffleInit ==
  /\ pc = "shuffle"
  /\ date \in Dates
  /\ rng = createRng(date)
  /\ returned = <<>>
  /\ NoLocals
  /\ shuffleInput \in ShuffleInputs
  /\ shuffleOutput = <<>>
  /\ SessionInit

ShuffleCall ==
  /\ pc = "shuffle"
  /\ \E sh \in {shuffle(rng, shuffleInput)} :
        /\ shuffleOutput' = sh.val
        /\ rng' = sh.rng
  /\ pc' = "shuffled"
  /\ UNCHANGED <<date, returned, shapeVars, bonusVars, board, letterVars,
                 shuffleInput, sessionVars>>

ShuffleSpec == ShuffleInit /\ [][ShuffleCall]_vars

\* ------------------------------------------------------------------------
\* Placement validation and application (@/lib/gameLogic), as Game calls them
\* ------------------------------------------------------------------------
LETTER_POINTS ==
  [A |-> 1, B |-> 3, C |-> 3, D |-> 2, E |-> 1, F |-> 4, G |-> 2, H |-> 4,
   I |-> 1, J |-> 8, K |-> 5, L |-> 1, M |-> 3, N |-> 1, O |-> 1, P |-> 3,
   Q |-> 10, R |-> 1, S |-> 1, T |-> 1, U |-> 1, V |-> 4, W |-> 4, X |-> 8,
   Y |-> 4, Z |-> 10]

BONUS_MULTIPLIERS ==
  [DL |-> [letter |-> 2, word |-> 1],
   TL |-> [letter |-> 3, word |-> 1],
   DW |-> [letter |-> 1, word |-> 2],
   TW |-> [letter |-> 1, word |-> 3],
   START |-> [letter |-> 1, word |-> 2]]

letterMultiplier(bonus) ==
  IF bonus = Null THEN 1 ELSE BONUS_MULTIPLIERS[bonus].letter

wordMultiplier(bonus) ==
  IF bonus = Null THEN 1 ELSE BONUS_MULTIPLIERS[bonus].word

\* the reasons of a rejection, one for each rule
Reason ==
  [noTiles |-> "No tiles placed",
   badCell |-> "Tiles must be placed on playable, unlocked cells",
   duplicate |-> "Two tiles on one cell",
   line |-> "Tiles must be in one row or one column",
   gap |-> "Tiles must be contiguous",
   start |-> "First word must cover the start square",
   connect |-> "Word must connect to existing word",
   word |-> "Not a valid word"]

TileCell(tile) == <<tile.row, tile.col>>

TileCells(tiles) == {TileCell(tiles[k]) : k \in DOMAIN tiles}

\* the first tile on a cell
TileOn(tiles, p) ==
  tiles[CHOOSE k \in DOMAIN tiles :
          /\ TileCell(tiles[k]) = p
          /\ \A j \in 1..(k - 1) : TileCell(tiles[j]) # p]

\* the letter a cell shows once the tiles lie on the board
LetterAt(b, tiles, p) ==
  IF p \in TileCells(tiles) THEN TileOn(tiles, p).letter ELSE b.cells[p].letter

HasLetter(b, tiles, p) ==
  /\ inBounds(p[1], p[2], b.size)
  /\ LetterAt(b, tiles, p) # Null

LockedLetter(b, p) ==
  /\ inBounds(p[1], p[2], b.size)
  /\ b.cells[p].isLocked
  /\ b.cells[p].letter # Null

LineStep(direction) == IF direction = "horizontal" THEN <<0, 1>> ELSE <<1, 0>>

Perpendicular(direction) == IF direction = "horizontal" THEN "vertical" ELSE "horizontal"

\* the first cell of the run of letters through p
RECURSIVE RunStart(_, _, _, _)
RunStart(b, tiles, p, d) ==
  IF HasLetter(b, tiles, <<p[1] - d[1], p[2] - d[2]>>)
  THEN RunStart(b, tiles, <<p[1] - d[1], p[2] - d[2]>>, d)
  ELSE p

RECURSIVE RunFrom(_, _, _, _)
RunFrom(b, tiles, p, d) ==
  IF HasLetter(b, tiles, p)
  THEN <<p>> \o RunFrom(b, tiles, <<p[1] + d[1], p[2] + d[2]>>, d)
  ELSE <<>>

\* the contiguous line of letters through p, in reading order
RunThrough(b, tiles, p, direction) ==
  RunFrom(b, tiles, RunStart(b, tiles, p, LineStep(direction)), LineStep(direction))

SeqRange(seq) == {seq[k] : k \in DOMAIN seq}

\* a single tile reads along the line on which it has a neighbour
PlacementDirection(b, tiles) ==
  IF Len(tiles) > 1
  THEN IF \A k \in DOMAIN tiles : tiles[k].row = tiles[1].row
       THEN "horizontal"
       ELSE "vertical"
  ELSE LET p == TileCell(tiles[1])
       IN  IF \/ HasLetter(b, <<>>, <<p[1], p[2] - 1>>)
              \/ HasLetter(b, <<>>, <<p[1], p[2] + 1>>)
           THEN "horizontal"
           ELSE IF \/ HasLetter(b, <<>>, <<p[1] - 1, p[2]>>)
                   \/ HasLetter(b, <<>>, <<p[1] + 1, p[2]>>)
                THEN "vertical"
                ELSE "horizontal"

Collinear(tiles) ==
  \/ \A k \in DOMAIN tiles : tiles[k].row = tiles[1].row
  \/ \A k \in DOMAIN tiles : tiles[k].col = tiles[1].col

OnFreeCells(b, tiles) ==
  \A k \in DOMAIN tiles :
    /\ inBounds(tiles[k].row, tiles[k].col, b.size)
    /\ b.cells[TileCell(tiles[k])].isPlayable
    /\ ~b.cells[TileCell(tiles[k])].isLocked
    /\ b.cells[TileCell(tiles[k])].letter = Null

CoversStart(b, run) ==
  \E k \in DOMAIN run : b.cells[run[k]].bonus = "START"

\* the run holds a locked letter, or a tile lies next to one
TouchesLocked(b, tiles, run) ==
  \/ \E k \in DOMAIN run : LockedLetter(b, run[k])
  \/ \E k \in DOMAIN tiles :
       \E n \in SeqRange(getNeighbors(tiles[k].row, tiles[k].col, b.size)) :
         LockedLetter(b, n)

RECURSIVE LetterSum(_, _, _, _)
LetterSum(b, tiles, run, k) ==
  IF k > Len(run)
  THEN 0
  ELSE LET p == run[k]
           points == LETTER_POINTS[LetterAt(b, tiles, p)]
       IN  (IF p \in TileCells(tiles)
            THEN points * letterMultiplier(b.cells[p].bonus)
            ELSE points)
           + LetterSum(b, tiles, run, k + 1)

RECURSIVE WordFactor(_, _, _, _)
WordFactor(b, tiles, run, k) ==
  IF k > Len(run)
  THEN 1
  ELSE (IF run[k] \in TileCells(tiles)
        THEN wordMultiplier(b.cells[run[k]].bonus)
        ELSE 1)
       * WordFactor(b, tiles, run, k + 1)

WordOf(b, tiles, run, direction) ==
  [word |-> [k \in DOMAIN run |-> LetterAt(b, tiles, run[k])],
   tiles |-> [k \in DOMAIN run |->
                [row |-> run[k][1], col |-> run[k][2],
                 letter |-> LetterAt(b, tiles, run[k])]],
   score |-> LetterSum(b, tiles, run, 1) * WordFactor(b, tiles, run, 1),
   startRow |-> run[1][1],
   startCol |-> run[1][2],
   direction |-> direction]

\* the words across the line, one for a tile with a neighbour beside the line
RECURSIVE CrossWords(_, _, _, _)
CrossWords(b, tiles, direction, k) ==
  IF k > Len(tiles)
  THEN <<>>
  ELSE LET run == RunThrough(b, tiles, TileCell(tiles[k]), Perpendicular(direction))
       IN  (IF Len(run) >= 2
            THEN <<WordOf(b, tiles, run, Perpendicular(direction))>>
            ELSE <<>>)
           \o CrossWords(b, tiles, direction, k + 1)

RECURSIVE ScoreSum(_, _)
ScoreSum(words, k) ==
  IF k > Len(words) THEN 0 ELSE words[k].score + ScoreSum(words, k + 1)

Rejection(reason) ==
  [valid |-> FALSE, words |-> <<>>, totalScore |-> 0, error |-> reason]

\* legal: the answer of isValidWord for the words of the submission
validatePlacement(b, tiles, firstWord, legal) ==
  IF Len(tiles) = 0 THEN Rejection(Reason.noTiles)
  ELSE IF ~OnFreeCells(b, tiles) THEN Rejection(Reason.badCell)
  ELSE IF Cardinality(TileCells(tiles)) < Len(tiles) THEN Rejection(Reason.duplicate)
  ELSE IF ~Collinear(tiles) THEN Rejection(Reason.line)
  ELSE LET direction == PlacementDirection(b, tiles)
           run == RunThrough(b, tiles, TileCell(tiles[1]), direction)
           words == <<WordOf(b, tiles, run, direction)>>
                      \o CrossWords(b, tiles, direction, 1)
       IN  IF ~(TileCells(tiles) \subseteq SeqRange(run)) THEN Rejection(Reason.gap)
           ELSE IF firstWord /\ ~CoversStart(b, run) THEN Rejection(Reason.start)
           ELSE IF ~firstWord /\ ~TouchesLocked(b, tiles, run)
                THEN Rejection(Reason.connect)
           ELSE IF ~legal THEN Rejection(Reason.word)
           ELSE [valid |-> TRUE, words |-> words,
                 totalScore |-> ScoreSum(words, 1), error |-> Null]

\* a new board with the tiles written to their cells and locked
applyPlacement(b, tiles) ==
  [b EXCEPT !.cells =
     [p \in DOMAIN b.cells |->
        IF p \in TileCells(tiles)
        THEN [b.cells[p] EXCEPT !.letter = TileOn(tiles, p).letter,
                                !.isLocked = TRUE]
        ELSE b.cells[p]]]

\* ------------------------------------------------------------------------
\* The play session: the state of the Game component and its handlers
\* ------------------------------------------------------------------------
ALL_LETTERS_BONUS == 50

\* the texts setError is called with
Message ==
  [noTiles |-> "Place some tiles first",
   invalid |-> "Invalid placement",
   noWords |-> "Submit at least one word first",
   bonus |-> "All letters used! +50 bonus!"]

\* the cells the player clicks: the start cell, the cell to its right and a
\* cell two rows above it
ClickCells == {<<4, 4>>, <<4, 5>>, <<2, 4>>}

\* the puzzle generateDailyPuzzle() returned to the init effect
puzzle == returned[Len(returned)]

RemoveAt(seq, i) == SubSeq(seq, 1, i - 1) \o SubSeq(seq, i + 1, Len(seq))

\* new Set([...prev, index])
SetAdd(seq, index) == IF index \in SeqRange(seq) THEN seq ELSE Append(seq, index)

\* the init effect, after generateDailyPuzzle() has returned
LoadPuzzle ==
  /\ isLoading
  /\ pc = "done"
  /\ returned # <<>>
  /\ gameBoard' = puzzle.board
  /\ rackLetters' = puzzle.letters
  /\ isLoading' = FALSE
  /\ UNCHANGED <<rackVars, selectedCell, submittedWords, totalScore, error,
                 showShareModal>>
  /\ UNCHANGED <<generatorVars, shuffleVars>>

\* the click on a rack letter without the test of the used and locked sets
handleRackClickAny(index) ==
  /\ ~isLoading
  /\ index < Len(rackLetters)
  /\ selectedRackIndex' = IF selectedRackIndex = index THEN NoIndex ELSE index
  /\ error' = Null
  /\ UNCHANGED <<isLoading, gameBoard, rackLetters, placedTiles, usedRackIndices,
                 lockedRackIndices, selectedCell, submittedWords, totalScore,
                 showShareModal>>
  /\ UNCHANGED <<generatorVars, shuffleVars>>

handleRackClick(index) ==
  /\ ~isLoading
  /\ index < Len(rackLetters)
  /\ IF index \in SeqRange(usedRackIndices) \/ index \in lockedRackIndices
     THEN UNCHANGED <<selectedRackIndex, error>>
     ELSE /\ selectedRackIndex' = IF selectedRackIndex = index THEN NoIndex ELSE index
          /\ error' = Null
  /\ UNCHANGED <<isLoading, gameBoard, rackLetters, placedTiles, usedRackIndices,
                 lockedRackIndices, selectedCell, submittedWords, totalScore,
                 showShareModal>>
  /\ UNCHANGED <<generatorVars, shuffleVars>>

\* placedTiles.findIndex: the indices of the tiles on (row, col)
TilesOn(row, col) ==
  {k \in DOMAIN placedTiles : placedTiles[k].row = row /\ placedTiles[k].col = col}

\* Array.from(usedRackIndices).find: the places, in insertion order, of the
\* used indices that show the letter
UsedWithLetter(letter) ==
  {k \in DOMAIN usedRackIndices : rackLetters[usedRackIndices[k] + 1] = letter}

Minimum(S) == CHOOSE k \in S : \A j \in S : k <= j

\* the tile is taken back and its rack index stays used
RemoveTileKeepingIndex(existingTileIndex) ==
  /\ placedTiles' = RemoveAt(placedTiles, existingTileIndex)
  /\ selectedCell' = NoCell
  /\ error' = Null
  /\ UNCHANGED <<usedRackIndices, selectedRackIndex>>

\* the branch that takes a placed tile back
RemoveTile(existingTileIndex) ==
  LET tile == placedTiles[existingTileIndex]
      found == UsedWithLetter(tile.letter)
  IN  /\ placedTiles' = RemoveAt(placedTiles, existingTileIndex)
      /\ usedRackIndices' = IF found # {}
                            THEN RemoveAt(usedRackIndices, Minimum(found))
                            ELSE usedRackIndices
      /\ selectedCell' = NoCell
      /\ error' = Null
      /\ UNCHANGED selectedRackIndex

\* the branch that places the selected letter
PlaceTile(row, col) ==
  /\ placedTiles' = Append(placedTiles,
                           [row |-> row, col |-> col,
                            letter |-> rackLetters[selectedRackIndex + 1]])
  /\ usedRackIndices' = SetAdd(usedRackIndices, selectedRackIndex)
  /\ selectedRackIndex' = NoIndex
  /\ selectedCell' = NoCell
  /\ error' = Null

\* every cell is answered
CellOpenAlways(row, col) == TRUE

\* the click is answered: the cell is playable and holds no locked letter
CellOpen(row, col) ==
  /\ gameBoard.cells[<<row, col>>].isPlayable
  /\ ~(gameBoard.cells[<<row, col>>].isLocked
       /\ gameBoard.cells[<<row, col>>].letter # Null)

handleCellClick(row, col) ==
  /\ ~isLoading
  /\ IF ~CellOpen(row, col)
     THEN UNCHANGED <<placedTiles, usedRackIndices, selectedRackIndex,
                      selectedCell, error>>
     ELSE IF TilesOn(row, col) # {}
          THEN RemoveTile(Minimum(TilesOn(row, col)))
          ELSE IF selectedRackIndex # NoIndex
               THEN PlaceTile(row, col)
               ELSE /\ selectedCell' = [row |-> row, col |-> col]
                    /\ UNCHANGED <<placedTiles, usedRackIndices,
                                   selectedRackIndex, error>>
  /\ UNCHANGED <<isLoading, gameBoard, rackLetters, lockedRackIndices,
                 submittedWords, totalScore, showShareModal>>
  /\ UNCHANGED <<generatorVars, shuffleVars>>

\* the flag handleSubmit hands to validatePlacement: set once a word is in
isFirstWordInverted == Len(submittedWords) # 0

isFirstWord == Len(submittedWords) = 0

\* the early return that also takes the tiles back
RejectSubmitClearing(reason) ==
  /\ error' = reason
  /\ placedTiles' = <<>>
  /\ usedRackIndices' = <<>>
  /\ UNCHANGED <<gameBoard, lockedRackIndices, submittedWords, totalScore>>

\* the early returns of handleSubmit
RejectSubmit(reason) ==
  /\ error' = reason
  /\ UNCHANGED <<gameBoard, placedTiles, usedRackIndices, lockedRackIndices,
                 submittedWords, totalScore>>

\* the accepted placement, the bonus left out of the total
AcceptSubmitNoBonus(result) ==
  LET newLockedIndices == lockedRackIndices \cup SeqRange(usedRackIndices)
      allLettersUsed == Cardinality(newLockedIndices) = Len(rackLetters)
  IN  /\ gameBoard' = applyPlacement(gameBoard, placedTiles)
      /\ lockedRackIndices' = newLockedIndices
      /\ submittedWords' = submittedWords \o result.words
      /\ totalScore' = totalScore + result.totalScore
      /\ placedTiles' = <<>>
      /\ usedRackIndices' = <<>>
      /\ error' = IF allLettersUsed THEN Message.bonus ELSE Null

\* the accepted placement
AcceptSubmit(result) ==
  LET newLockedIndices == lockedRackIndices \cup SeqRange(usedRackIndices)
      allLettersUsed == Cardinality(newLockedIndices) = Len(rackLetters)
      bonus == IF allLettersUsed THEN ALL_LETTERS_BONUS ELSE 0
  IN  /\ gameBoard' = applyPlacement(gameBoard, placedTiles)
      /\ lockedRackIndices' = newLockedIndices
      /\ submittedWords' = submittedWords \o result.words
      /\ totalScore' = totalScore + result.totalScore + bonus
      /\ placedTiles' = <<>>
      /\ usedRackIndices' = <<>>
      /\ error' = IF allLettersUsed THEN Message.bonus ELSE Null

\* validatePlacement is handed true for the flag on every submission
handleSubmitAlwaysFirst ==
  /\ ~isLoading
  /\ IF Len(placedTiles) = 0
     THEN RejectSubmit(Message.noTiles)
     ELSE \E legal \in BOOLEAN :
            \E result \in {validatePlacement(gameBoard, placedTiles, TRUE, legal)} :
              IF ~result.valid
              THEN RejectSubmit(IF result.error # Null THEN result.error
                                ELSE Message.invalid)
              ELSE AcceptSubmit(result)
  /\ UNCHANGED <<isLoading, rackLetters, selectedRackIndex, selectedCell,
                 showShareModal>>
  /\ UNCHANGED <<generatorVars, shuffleVars>>

handleSubmit ==
  /\ ~isLoading
  /\ IF Len(placedTiles) = 0
     THEN RejectSubmit(Message.noTiles)
     ELSE \E legal \in BOOLEAN :
            \E result \in {validatePlacement(gameBoard, placedTiles, isFirstWord, legal)} :
              IF ~result.valid
              THEN RejectSubmit(IF result.error # Null THEN result.error
                                ELSE Message.invalid)
              ELSE AcceptSubmit(result)
  /\ UNCHANGED <<isLoading, rackLetters, selectedRackIndex, selectedCell,
                 showShareModal>>
  /\ UNCHANGED <<generatorVars, shuffleVars>>

\* the start over that also puts the board of the puzzle back
handleClearResetting ==
  /\ ~isLoading
  /\ placedTiles' = <<>>
  /\ usedRackIndices' = <<>>
  /\ selectedRackIndex' = NoIndex
  /\ selectedCell' = NoCell
  /\ error' = Null
  /\ gameBoard' = puzzle.board
  /\ UNCHANGED <<isLoading, rackLetters, lockedRackIndices, submittedWords,
                 totalScore, showShareModal>>
  /\ UNCHANGED <<generatorVars, shuffleVars>>

handleClear ==
  /\ ~isLoading
  /\ placedTiles' = <<>>
  /\ usedRackIndices' = <<>>
  /\ selectedRackIndex' = NoIndex
  /\ selectedCell' = NoCell
  /\ error' = Null
  /\ UNCHANGED <<isLoading, gameBoard, rackLetters, lockedRackIndices,
                 submittedWords, totalScore, showShareModal>>
  /\ UNCHANGED <<generatorVars, shuffleVars>>

handleFinish ==
  /\ ~isLoading
  /\ IF Len(submittedWords) = 0
     THEN error' = Message.noWords /\ UNCHANGED showShareModal
     ELSE showShareModal' = TRUE /\ UNCHANGED error
  /\ UNCHANGED <<isLoading, gameBoard, rackLetters, rackVars, selectedCell,
                 submittedWords, totalScore>>
  /\ UNCHANGED <<generatorVars, shuffleVars>>

\* onClose of the share modal
CloseShareModal ==
  /\ ~isLoading
  /\ showShareModal
  /\ showShareModal' = FALSE
  /\ UNCHANGED <<isLoading, gameBoard, rackLetters, rackVars, selectedCell,
                 submittedWords, totalScore, error>>
  /\ UNCHANGED <<generatorVars, shuffleVars>>

\* the one call of generateDailyPuzzle() of the init effect
GeneratePuzzle ==
  /\ isLoading
  /\ returned = <<>>
  /\ Next

GameNext ==
  \/ GeneratePuzzle
  \/ LoadPuzzle
  \/ \E index \in 0..MaxRackIndex : handleRackClick(index)
  \/ \E p \in ClickCells : handleCellClick(p[1], p[2])
  \/ handleSubmit
  \/ handleClear
  \/ handleFinish
  \/ CloseShareModal

GameSpec == Init /\ [][GameNext]_vars

\* ------------------------------------------------------------------------
\* A session in which the whole rack is played: the rack letters in their
\* order, one tile to a submission, each tile on the open cell nearest to
\* the start cell among those that touch a locked letter
\* ------------------------------------------------------------------------
\* the first rack index that is not locked
NextRackIndex ==
  {index \in 0..(Len(rackLetters) - 1) :
     /\ index \notin lockedRackIndices
     /\ \A j \in 0..(index - 1) : j \in lockedRackIndices}

\* the open cells a tile can be accepted on: the start cell, or a cell next
\* to a locked letter
TouchingCells ==
  {p \in Pos(BOARD_SIZE) :
     /\ CellOpen(p[1], p[2])
     /\ \/ gameBoard.cells[p].bonus = "START"
        \/ \E n \in SeqRange(getNeighbors(p[1], p[2], BOARD_SIZE)) :
             LockedLetter(gameBoard, n)}

\* nearest to the center first, then in the order of rows and columns
CellRank(p) ==
  distFromCenter(p[1], p[2], BOARD_SIZE) * BOARD_SIZE * BOARD_SIZE
    + p[1] * BOARD_SIZE + p[2]

TargetCells ==
  {p \in TouchingCells : \A q \in TouchingCells : CellRank(p) <= CellRank(q)}

FullPlayNext ==
  \/ GeneratePuzzle
  \/ LoadPuzzle
  \/ /\ placedTiles = <<>>
     /\ \E index \in NextRackIndex : handleRackClick(index)
  \/ /\ ~isLoading
     /\ \E p \in TargetCells : handleCellClick(p[1], p[2])
  \/ handleSubmit
  \/ handleClear
  \/ handleFinish
  \/ CloseShareModal

FullPlaySpec == Init /\ [][FullPlayNext]_vars

\* ------------------------------------------------------------------------
\* Properties
\* ------------------------------------------------------------------------
Cells == Pos(BOARD_SIZE)

CenterCell == <<BOARD_SIZE \div 2, BOARD_SIZE \div 2>>

\* the 180-degree counterpart of a cell, written out
Rot(p) == <<BOARD_SIZE - 1 - p[1], BOARD_SIZE - 1 - p[2]>>

Manhattan(p, q) == Abs(p[1] - q[1]) + Abs(p[2] - q[2])

\* positions of the call at which generateBoardShape has returned
ShapeDone == {"start", "bonus", "letters", "return", "done"}

\* positions of the call at which the start square has been placed
StartPlaced == {"bonus", "letters", "return", "done"}

\* positions of the call at which generateLetters has returned
LettersDone == {"return", "done"}

DeadCells == {p \in Cells : ~playable[p]}

\* the cells joined to the cells of S by 4-adjacent cells of the mask
RECURSIVE ReachableFrom(_, _)
ReachableFrom(S, mask) ==
  LET N == S \cup {q \in Cells : mask[q] /\ \E p \in S : Manhattan(p, q) = 1}
  IN  IF N = S THEN S ELSE ReachableFrom(N, mask)

VowelSet == {"A", "E", "I", "O", "U"}

\* word is a sub-multiset of the rack ls
SubMultiset(word, ls) == \A l \in Letters : Count(word, l) <= Count(ls, l)

Formable(ls, wordList) ==
  Cardinality({k \in DOMAIN wordList : SubMultiset(wordList[k], ls)})

\* C1: two calls of generateDailyPuzzle with the same date return the same
\* playable mask, the same bonus layout and the same letter sequence.
C1_Deterministic ==
  \A i \in DOMAIN returned : \A j \in DOMAIN returned :
    returned[i].date = returned[j].date
      => /\ \A p \in Cells :
              /\ returned[i].board.cells[p].isPlayable
                   = returned[j].board.cells[p].isPlayable
              /\ returned[i].board.cells[p].bonus = returned[j].board.cells[p].bonus
         /\ returned[i].letters = returned[j].letters

\* two calls with the same date have returned, and the board has dead cells
C1_Witness ==
  /\ Len(returned) = 2
  /\ returned[1].date = returned[2].date
  /\ \E p \in Cells : ~returned[2].board.cells[p].isPlayable

\* C2: the mask returned by generateBoardShape is non-empty, every playable
\* cell is joined to the center by 4-adjacent playable cells, and the final
\* pass has killed no cell that the scan had reached.
C2_Connected ==
  pc \in ShapeDone
    => /\ playable[CenterCell]
       /\ {p \in Cells : playable[p]} = ReachableFrom({CenterCell}, playable)
       /\ \A p \in Cells : visited[p] => playable[p]

\* the final pass has killed cells: more cells are dead than were carved
C2_Witness ==
  /\ pc \in ShapeDone
  /\ Cardinality(DeadCells) > deadCount
  /\ deadCount > 0

\* C3: at every point of the generation the playable mask and the bonus
\* grid are unchanged by the 180-degree rotation, and so is a returned board.
C3_Symmetric ==
  /\ \A p \in Cells : playable[p] = playable[Rot(p)] /\ bonuses[p] = bonuses[Rot(p)]
  /\ \A i \in DOMAIN returned : \A p \in Cells :
        /\ returned[i].board.cells[p].isPlayable
             = returned[i].board.cells[Rot(p)].isPlayable
        /\ returned[i].board.cells[p].bonus = returned[i].board.cells[Rot(p)].bonus

\* a returned board with carved cells, cells killed by the final pass and
\* bonus pairs of every kind
C3_Witness ==
  /\ pc = "done"
  /\ deadCount > 0
  /\ \A t \in {"TW", "DW", "TL", "DL"} : \E p \in Cells : bonuses[p] = t
  /\ \E p \in Cells : ~playable[p] /\ p[1] # Rot(p)[1] /\ p[2] # Rot(p)[2]

\* C4: once placed, START is on the center cell and on no other cell, and
\* the center cell is playable; the same holds of every returned board.
C4_OneStart ==
  /\ pc \in StartPlaced
       => /\ {p \in Cells : bonuses[p] = "START"} = {CenterCell}
          /\ playable[CenterCell]
  /\ \A i \in DOMAIN returned :
        /\ {p \in Cells : returned[i].board.cells[p].bonus = "START"} = {CenterCell}
        /\ returned[i].board.cells[CenterCell].isPlayable

\* all nine bonus pairs have been placed around the start square
C4_Witness ==
  /\ pc = "done"
  /\ Cardinality({p \in Cells : bonuses[p] \notin {Null, "START"}}) = 18

\* the numeric constraints of a rack, written out
RackInLimits(ls) ==
  /\ Len(ls) = 14
  /\ Cardinality({k \in DOMAIN ls : ls[k] \in VowelSet}) \in 4..6
  /\ \A l \in Letters : Count(ls, l) <= 2
  /\ Cardinality({ls[k] : k \in DOMAIN ls}) >= 10

RackFormsWords(ls) ==
  /\ Formable(ls, COMMON_2_LETTER_WORDS) >= 3
  /\ Formable(ls, COMMON_3_LETTER_WORDS) >= 2

\* C6: a returned rack forms, as sub-multisets of its letters, at least 3
\* of the common 2-letter words and at least 2 of the common 3-letter words;
\* so does each of the five fallback sets.
C6_Playable ==
  /\ pc \in LettersDone => RackFormsWords(letters)
  /\ \A k \in DOMAIN fallbackSets : RackFormsWords(fallbackSets[k])

\* a rack has been returned by each of the two paths: the first call ended
\* in the fallback, the running one accepted a draw
C6_Witness ==
  /\ pc = "return"
  /\ attempt < maxAttempts
  /\ Len(returned) = 1
  /\ \E k \in DOMAIN fallbackSets :
        \A l \in Letters : Count(returned[1].letters, l) = Count(fallbackSets[k], l)

\* C7: generateLetters makes at most 50 attempts, and every call that has
\* started returns a puzzle.
C7_Terminates ==
  /\ [](attempt <= 50)
  /\ (pc \notin {"idle", "done"}) ~> (pc = "done")

\* a call has returned the rack of the fallback branch after 50 attempts
C7_Witness ==
  /\ pc = "done"
  /\ attempt = 50

\* C8: the returned rack has its vowels before its consonants, each group
\* in alphabetical order, and is a permutation of the letters drawn.
C8_CanonicalOrder ==
  pc \in LettersDone
    => /\ \A i \in DOMAIN letters : \A j \in DOMAIN letters :
            i < j =>
              /\ letters[j] \in VowelSet => letters[i] \in VowelSet
              /\ (letters[i] \in VowelSet) = (letters[j] \in VowelSet)
                   => Code(letters[i]) <= Code(letters[j])
       /\ Len(letters) = Len(drawn)
       /\ \A l \in Letters : Count(letters, l) = Count(drawn, l)

\* sortLetters has moved letters: the draw was not in canonical order
C8_Witness ==
  /\ pc = "return"
  /\ letters # drawn
  /\ Len(letters) = 14

\* C9: no non-playable cell holds a bonus, during placement and in the
\* board built; every cell of a fresh board has no letter and is unlocked.
C9_DeadCellsEmpty ==
  /\ pc \in StartPlaced => \A p \in Cells : ~playable[p] => bonuses[p] = Null
  /\ \A i \in DOMAIN returned : \A p \in Cells :
        LET cell == returned[i].board.cells[p]
        IN  /\ ~cell.isPlayable => cell.bonus = Null
            /\ cell.letter = Null
            /\ cell.isLocked = FALSE

\* a returned board that has dead cells and bonus squares
C9_Witness ==
  /\ Len(returned) > 0
  /\ \E p \in Cells : ~returned[1].board.cells[p].isPlayable
  /\ \E p \in Cells : returned[1].board.cells[p].bonus \in {"TW", "DW", "TL", "DL"}

\* C10: every cell at Manhattan distance at most centerProtectionRadius (2)
\* from the center is playable in the mask generateBoardShape returns.
C10_CenterProtected ==
  pc \in ShapeDone
    => \A p \in Cells : Manhattan(p, CenterCell) <= 2 => playable[p]

PlayableCount == Cardinality({p \in Cells : playable[p]})

\* C11: the number of playable cells of the mask generateBoardShape returns
\* lies between floor(0.65 N^2) and floor(0.85 N^2).
C11_PlayableShare ==
  pc \in ShapeDone
    => /\ PlayableCount >= (BOARD_SIZE * BOARD_SIZE * 65) \div 100
       /\ PlayableCount <= (BOARD_SIZE * BOARD_SIZE * 85) \div 100

BonusCells(grid, t) == {p \in Cells : grid[p] = t}

\* the minimum distances of the categories, written out
FarEnough(grid) ==
  /\ \A p \in BonusCells(grid, "TW") : Manhattan(p, CenterCell) >= 3
  /\ \A p \in BonusCells(grid, "DW") : Manhattan(p, CenterCell) >= 2
  /\ \A p \in BonusCells(grid, "TL") : Manhattan(p, CenterCell) >= 1
  /\ grid[CenterCell] \notin {"TW", "DW", "TL", "DL"}

\* C18: at every point of the placement, and in every returned board, a TW
\* cell is at Manhattan distance 3 or more from the center, a DW cell at 2
\* or more, a TL cell at 1 or more, and the center carries none of the four.
C18_BonusDistance ==
  /\ FarEnough(bonuses)
  /\ \A i \in DOMAIN returned :
        FarEnough([p \in Cells |-> returned[i].board.cells[p].bonus])

\* a returned board that carries TW, DW and TL cells
C18_Witness ==
  /\ pc = "done"
  /\ Len(returned) > 0
  /\ BonusCells(bonuses, "TW") # {}
  /\ BonusCells(bonuses, "DW") # {}
  /\ BonusCells(bonuses, "TL") # {}

\* the counts of the categories, written out
WithinCounts(grid) ==
  /\ Cardinality(BonusCells(grid, "TW")) <= 2
  /\ Cardinality(BonusCells(grid, "DW")) <= 4
  /\ Cardinality(BonusCells(grid, "TL")) <= 4
  /\ Cardinality(BonusCells(grid, "DL")) <= 8
  /\ \A t \in {"TW", "DW", "TL", "DL"} : Cardinality(BonusCells(grid, t)) % 2 = 0

RECURSIVE Draws(_, _)
Draws(s, n) == IF n = 0 THEN s ELSE Draws(NextState(s), n - 1)

RejectionErrors ==
  {Message.noTiles, Message.invalid} \cup {Reason[f] : f \in DOMAIN Reason}

\* C12: a submission that is turned down, for having no tiles or by the
\* validation, changes the error only: the board, the pending tiles, the
\* used and the locked rack indices, the submitted words and the total
\* score stay as they are.
C12_RejectionKeepsState ==
  [][((Len(placedTiles) = 0 \/ error' \in RejectionErrors) /\ handleSubmit)
       => UNCHANGED <<gameBoard, placedTiles, usedRackIndices,
                      lockedRackIndices, submittedWords, totalScore>>]_vars

\* the validation has turned a submission down and its tiles are still pending
C12_Witness ==
  /\ error \in {Reason.line, Reason.gap, Reason.word}
  /\ placedTiles # <<>>

\* C13: once the puzzle is loaded the board changes in handleSubmit only,
\* to applyPlacement of the pending tiles validatePlacement has accepted;
\* clicks on the rack and on cells, clear and finish leave the board alone.
C13_BoardChangesBySubmit ==
  [][(~isLoading /\ gameBoard' # gameBoard)
       => /\ handleSubmit
          /\ \E legal \in BOOLEAN :
               validatePlacement(gameBoard, placedTiles, isFirstWord, legal).valid
          /\ gameBoard' = applyPlacement(gameBoard, placedTiles)
          /\ ~(\/ \E index \in 0..MaxRackIndex : handleRackClick(index)
               \/ \E q \in ClickCells : handleCellClick(q[1], q[2])
               \/ handleClear
               \/ handleFinish)]_vars

\* a submission has been applied to the board of the puzzle
C13_Witness ==
  /\ ~isLoading
  /\ gameBoard # puzzle.board
  /\ \E q \in Cells : gameBoard.cells[q].isLocked

C15_RackSetsDisjoint ==
  /\ [](/\ SeqRange(usedRackIndices) \cap lockedRackIndices = {}
        /\ selectedRackIndex # NoIndex
             => /\ selectedRackIndex \notin SeqRange(usedRackIndices)
                /\ selectedRackIndex \notin lockedRackIndices)
  /\ [][lockedRackIndices \subseteq lockedRackIndices']_vars

\* a rack letter is pending while another one is locked
C15_Witness ==
  /\ lockedRackIndices # {}
  /\ usedRackIndices # <<>>

\* the rules of the validation before the start and the connection rule
WellFormed(b, tiles) ==
  /\ Len(tiles) > 0
  /\ OnFreeCells(b, tiles)
  /\ Cardinality(TileCells(tiles)) = Len(tiles)
  /\ Collinear(tiles)
  /\ TileCells(tiles) \subseteq
       SeqRange(RunThrough(b, tiles, TileCell(tiles[1]), PlacementDirection(b, tiles)))

\* the run of letters the pending tiles make on the board
PendingRun ==
  RunThrough(gameBoard, placedTiles, TileCell(placedTiles[1]),
             PlacementDirection(gameBoard, placedTiles))

HasLockedLetter == \E q \in Cells : LockedLetter(gameBoard, q)

StartCells == {q \in Cells : gameBoard.cells[q].bonus = "START"}

\* C16: as long as no word has been accepted the validation is handed
\* isFirstWord = true and a submission whose run does not cover the start
\* cell is turned down; after the first accepted submission the start cell
\* holds a locked letter.
C16_FirstWordCoversStart ==
  /\ []((~isLoading /\ ~HasLockedLetter) => isFirstWord)
  /\ []((~isLoading /\ (HasLockedLetter \/ submittedWords # <<>>))
          => \A q \in StartCells : LockedLetter(gameBoard, q))
  /\ [][(/\ submittedWords = <<>>
         /\ placedTiles # <<>>
         /\ \A k \in DOMAIN placedTiles :
               TileCell(placedTiles[k]) \notin StartCells
         /\ handleSubmit)
          => /\ error' \in RejectionErrors
             /\ gameBoard' = gameBoard
             /\ submittedWords' = <<>>
             /\ WellFormed(gameBoard, placedTiles) => error' = Reason.start]_vars

\* a first submission beside the start cell has been turned down
C16_Witness ==
  /\ error = Reason.start
  /\ submittedWords = <<>>
  /\ placedTiles # <<>>

\* C17: once a word has been accepted the validation is handed
\* isFirstWord = false, and a submission whose run neither holds nor lies
\* next to a locked letter is turned down with the reason that it must
\* connect to an existing word; the board stays as it is.
C17_LaterWordsConnect ==
  /\ []((~isLoading /\ HasLockedLetter) => ~isFirstWord)
  /\ [][(/\ submittedWords # <<>>
         /\ WellFormed(gameBoard, placedTiles)
         /\ ~TouchesLocked(gameBoard, placedTiles, PendingRun)
         /\ handleSubmit)
          => /\ error' = Reason.connect
             /\ gameBoard' = gameBoard]_vars

\* a later submission away from the locked letters has been turned down
C17_Witness ==
  /\ error = Reason.connect
  /\ submittedWords # <<>>
  /\ placedTiles # <<>>

WordMultipliers == {"TW", "DW", "START"}

\* no cell with a word multiplier has a 4-neighbour with one
Apart(grid) ==
  \A p \in Cells :
    grid[p] \in WordMultipliers
      => \A n \in SeqRange(getNeighbors(p[1], p[2], BOARD_SIZE)) :
           grid[n] \notin WordMultipliers

\* C23: at every point of the placement, and in every returned board, no
\* cell carrying TW, DW or START has a 4-neighbour carrying TW, DW or START.
C23_WordMultipliersApart ==
  /\ Apart(bonuses)
  /\ \A i \in DOMAIN returned :
        Apart([p \in Cells |-> returned[i].board.cells[p].bonus])

\* a returned board with all seven word multipliers, two of them two steps
\* from each other
C23_Witness ==
  /\ pc = "done"
  /\ Cardinality({p \in Cells : bonuses[p] \in WordMultipliers}) = 7
  /\ \E p, q \in Cells :
        /\ bonuses[p] \in WordMultipliers
        /\ bonuses[q] \in WordMultipliers
        /\ Manhattan(p, q) = 2

\* the letters of the pending tiles and the rack letters at the used indices
PendingLetters == [k \in DOMAIN placedTiles |-> placedTiles[k].letter]

UsedLetters == [k \in DOMAIN usedRackIndices |-> rackLetters[usedRackIndices[k] + 1]]

\* C21: there are as many pending tiles as used rack indices, each letter
\* is as often on a pending tile as at a used rack index, and a step that
\* takes one tile back frees one rack index that holds the letter of the tile.
C21_PendingMatchesUsed ==
  /\ [](/\ Len(placedTiles) = Len(usedRackIndices)
        /\ Cardinality(SeqRange(usedRackIndices)) = Len(usedRackIndices)
        /\ \A l \in SeqRange(PendingLetters) \cup SeqRange(UsedLetters) :
              Count(PendingLetters, l) = Count(UsedLetters, l))
  /\ [][\A i \in DOMAIN placedTiles :
          (placedTiles' = RemoveAt(placedTiles, i) /\ lockedRackIndices' = lockedRackIndices)
            => \E k \in DOMAIN usedRackIndices :
                 /\ usedRackIndices' = RemoveAt(usedRackIndices, k)
                 /\ rackLetters[usedRackIndices[k] + 1] = placedTiles[i].letter]_vars

\* the rack holds a letter twice: one of the two is on a pending tile and
\* the one at the lower index is selected
C21_Witness ==
  /\ Len(placedTiles) = 1
  /\ Len(usedRackIndices) = 1
  /\ selectedRackIndex # NoIndex
  /\ selectedRackIndex < usedRackIndices[1]
  /\ rackLetters[selectedRackIndex + 1] = placedTiles[1].letter

\* every letter of the loaded rack is locked
AllLocked ==
  /\ ~isLoading
  /\ Cardinality(lockedRackIndices) = Len(rackLetters)

\* C22: the total score and the locked rack indices change in accepted
\* submissions only, by the totalScore of the submission, and by 50 more in
\* exactly the submission after which every rack index is locked; from then
\* on no tile is placed and nothing is submitted, so the 50 are added once.
C22_AllLettersBonusOnce ==
  /\ [][(totalScore' # totalScore \/ lockedRackIndices' # lockedRackIndices)
         => /\ ~AllLocked
            /\ handleSubmit
            /\ \E legal \in BOOLEAN :
                 /\ validatePlacement(gameBoard, placedTiles, isFirstWord, legal).valid
                 /\ totalScore' = totalScore
                      + validatePlacement(gameBoard, placedTiles, isFirstWord, legal).totalScore
                      + (IF AllLocked' THEN ALL_LETTERS_BONUS ELSE 0)]_vars
  /\ [][AllLocked
         => UNCHANGED <<gameBoard, placedTiles, usedRackIndices,
                        lockedRackIndices, selectedRackIndex, submittedWords,
                        totalScore>>]_vars
  /\ [](AllLocked => (placedTiles = <<>> /\ selectedRackIndex = NoIndex))

\* the last letter of the rack has been accepted and the 50 are in the total
C22_Witness ==
  /\ AllLocked
  /\ Len(rackLetters) = LETTER_CONSTRAINTS.totalLetters
  /\ error = Message.bonus
  /\ totalScore > ALL_LETTERS_BONUS

====
